---- MODULE Spec2Model ----
(***************************************************************************)
(* Elliptic-curve engine of cipher-arc (utils/ellipticCurve.ts): modular   *)
(* arithmetic, the point group over F_p, ECDH key agreement and the ECDSA  *)
(* style signature scheme.  Only the finite-field branch (useFp = true) is *)
(* modelled; the real-number branch works on IEEE doubles.                 *)
(***************************************************************************)
EXTENDS Integers, Sequences, FiniteSets, TLC

(***************************************************************************)
(* Bounds of the model.                                                    *)
(***************************************************************************)
\* the small curves take their modulus among the first NumPrimes primes
NumPrimes == 4
\* scalars offered to scalarMultiply: 0..MaxScalar, and the stated order n
MaxScalar == 9
\* negative scalars offered to scalarMultiply: -MaxNegated..-1
MaxNegated == 3
\* private keys are drawn from 1..Min(n - 1, MaxPrivateKey)
MaxPrivateKey == 12
\* Math.random() returns i / RandomResolution for i in 0..RandomResolution - 1
RandomResolution == 32

\* modSqrt is applied to the first NumRootPrimes primes
NumRootPrimes == 12
\* modInverse is applied to the moduli 2..MaxModulus
MaxModulus == 40
\* invocations of exchangeKeys that may be waiting in their awaits at once
MaxInFlight == 1
\* three points are added with operands of x <= MaxOperandX
MaxOperandX == 12
\* ECDSASimulator draws the signer's private key from 1..MaxSimulatorKey
MaxSimulatorKey == 3

\* the odd primes, in order
PrimeTable == <<3, 5, 7, 11, 13, 17, 19, 23, 29, 31, 37, 41, 43>>

SmallPrimes == {PrimeTable[i] : i \in 1..NumPrimes}

RootPrimes == {PrimeTable[i] : i \in 1..NumRootPrimes}

(***************************************************************************)
(* Point and CurveParams.                                                  *)
(***************************************************************************)
\* the null coordinate of the point at infinity; affine coordinates of the
\* model are never negative
Null == -1

POINT_AT_INFINITY == [x |-> Null, y |-> Null, isInfinity |-> TRUE]

Affine(x, y) == [x |-> x, y |-> y, isInfinity |-> FALSE]

CurveParams(a, b, p, G, n) ==
    [a |-> a, b |-> b, p |-> p, G |-> G, n |-> n, useFp |-> TRUE]

defaultCurve == CurveParams(-7, 10, 223, Affine(47, 71), 227)

(***************************************************************************)
(* Modular arithmetic helpers.                                             *)
(***************************************************************************)
\* JavaScript's % : the remainder takes the sign of the dividend (m > 0)
JsRem(n, m) == IF n >= 0 THEN n % m ELSE -((-n) % m)

mod(n, m) == JsRem(JsRem(n, m) + m, m)

\* Math.floor(x / y) for y # 0
FloorDiv(x, y) == IF y > 0 THEN x \div y ELSE (-x) \div (-y)

\* the while loop of modInverse on the state (old_r, r, old_s, s)
RECURSIVE modInverseLoop(_, _, _, _)
modInverseLoop(old_r, r, old_s, s) ==
    IF r = 0 THEN old_s
    ELSE LET quotient == FloorDiv(old_r, r)
         IN  modInverseLoop(r, old_r - quotient * r, s, old_s - quotient * s)

\* modInverse that returns old_s as the loop leaves it
modInverseUnreduced(a, m) == modInverseLoop(a, m, 1, 0)

modInverse(a, m) == mod(modInverseLoop(a, m, 1, 0), m)

\* the while loop of modPow on the state (result, base, exp)
RECURSIVE modPowLoop(_, _, _, _)
modPowLoop(result, base, exp, m) ==
    IF exp > 0
    THEN modPowLoop(IF exp % 2 = 1 THEN JsRem(result * base, m) ELSE result,
                    JsRem(base * base, m), FloorDiv(exp, 2), m)
    ELSE result

modPow(base, exp, m) == modPowLoop(1, JsRem(base, m), exp, m)

\* while (s % 2 === 0) { s /= 2; e++; } : the pair <<s, e>>
RECURSIVE modSqrtSplit(_, _)
modSqrtSplit(s, e) ==
    IF s % 2 = 0 THEN modSqrtSplit(s \div 2, e + 1) ELSE <<s, e>>

\* while (modPow(q, (p - 1) / 2, p) === 1) q++
RECURSIVE modSqrtNonResidue(_, _)
modSqrtNonResidue(q, p) ==
    IF modPow(q, (p - 1) \div 2, p) = 1 THEN modSqrtNonResidue(q + 1, p) ELSE q

\* for (m = 0; m < r; m++) { if (t === 1) break; t = modPow(t, 2, p); } : m
RECURSIVE modSqrtLeastM(_, _, _, _)
modSqrtLeastM(t, m, r, p) ==
    IF m < r /\ t # 1 THEN modSqrtLeastM(modPow(t, 2, p), m + 1, r, p) ELSE m

RECURSIVE Pow2(_)
Pow2(i) == IF i = 0 THEN 1 ELSE 2 * Pow2(i - 1)

\* 1 << i : the shift count is taken modulo 32, and 1 << 31 is negative
ShiftLeftOne(i) ==
    LET count == i % 32
    IN  IF count = 31 THEN -(2 * Pow2(30)) ELSE Pow2(count)

\* the while (true) loop of modSqrt on the state (x, b, g, r)
RECURSIVE modSqrtLoop(_, _, _, _, _)
modSqrtLoop(x, b, g, r, p) ==
    LET m == modSqrtLeastM(b, 0, r, p)
    IN  IF m = 0 THEN <<x, p - x>>
        ELSE LET gs == modPow(g, ShiftLeftOne(r - m - 1), p)
                 g2 == JsRem(gs * gs, p)
             IN  modSqrtLoop(JsRem(x * gs, p), JsRem(b * g2, p), g2, m, p)

\* modSqrt that lets n = 0 (mod p) pass the residue test
modSqrtZeroAsResidue(n0, p) ==
    LET n == mod(n0, p)
    IN  IF p = 2 THEN <<n>>
        ELSE IF modPow(n, (p - 1) \div 2, p) \notin {0, 1} THEN <<>>
        ELSE IF p % 4 = 3
        THEN LET r == modPow(n, (p + 1) \div 4, p) IN <<r, p - r>>
        ELSE LET se == modSqrtSplit(p - 1, 0)
                 s  == se[1]
                 e  == se[2]
                 q  == modSqrtNonResidue(2, p)
             IN  modSqrtLoop(modPow(n, (s + 1) \div 2, p), modPow(n, s, p),
                             modPow(q, s, p), e, p)

\* modSqrt(n, p) for p = 2 or p odd: the list of roots
modSqrt(n0, p) ==
    LET n == mod(n0, p)
    IN  IF p = 2 THEN <<n>>
        ELSE IF modPow(n, (p - 1) \div 2, p) # 1 THEN <<>>
        ELSE IF p % 4 = 3
        THEN LET r == modPow(n, (p + 1) \div 4, p) IN <<r, p - r>>
        ELSE LET se == modSqrtSplit(p - 1, 0)
                 s  == se[1]
                 e  == se[2]
                 q  == modSqrtNonResidue(2, p)
             IN  modSqrtLoop(modPow(n, (s + 1) \div 2, p), modPow(n, s, p),
                             modPow(q, s, p), e, p)

(***************************************************************************)
(* The group law.                                                          *)
(***************************************************************************)
isOnCurve(point, curve) ==
    IF point.isInfinity THEN TRUE
    ELSE IF point.x = Null \/ point.y = Null THEN FALSE
    ELSE LET left  == mod(point.y * point.y, curve.p)
             right == mod(point.x * point.x * point.x + curve.a * point.x + curve.b,
                          curve.p)
         IN  left = right

\* slope of the tangent at P (point doubling)
TangentDenominator(P, curve) == mod(2 * P.y, curve.p)

TangentSlope(P, curve) ==
    LET numerator   == mod(3 * P.x * P.x + curve.a, curve.p)
        denominator == TangentDenominator(P, curve)
    IN  mod(numerator * modInverse(denominator, curve.p), curve.p)

ChordDenominator(P, Q, curve) == mod(Q.x - P.x, curve.p)

\* ChordSlope with the numerator taken as P.y - Q.y
ChordSlopeSwapped(P, Q, curve) ==
    LET numerator   == mod(P.y - Q.y, curve.p)
        denominator == ChordDenominator(P, Q, curve)
    IN  mod(numerator * modInverse(denominator, curve.p), curve.p)

\* slope of the chord through P and Q (point addition)
ChordSlope(P, Q, curve) ==
    LET numerator   == mod(Q.y - P.y, curve.p)
        denominator == ChordDenominator(P, Q, curve)
    IN  mod(numerator * modInverse(denominator, curve.p), curve.p)

\* ThirdPoint with y3 computed as slope * (x3 - P.x) - P.y
ThirdPointWrongY(slope, P, Q, curve) ==
    LET x3 == mod(slope * slope - P.x - Q.x, curve.p)
        y3 == mod(slope * (x3 - P.x) - P.y, curve.p)
    IN  Affine(x3, y3)

\* the third point of the line of the given slope through P and Q
ThirdPoint(slope, P, Q, curve) ==
    LET x3 == mod(slope * slope - P.x - Q.x, curve.p)
        y3 == mod(slope * (P.x - x3) - P.y, curve.p)
    IN  Affine(x3, y3)

\* AreInverses that compares P.y with -Q.y, not reduced modulo p
AreInversesUnreduced(P, Q) == P.x = Q.x /\ P.y = -Q.y

\* P.x === Q.x && P.y !== Q.y
AreInverses(P, Q) == P.x = Q.x /\ P.y # Q.y

\* addPoints that returns infinity, not P, when Q is infinity
addPointsLosingP(P, Q, curve) ==
    IF P.isInfinity THEN Q
    ELSE IF Q.isInfinity THEN POINT_AT_INFINITY
    ELSE IF AreInverses(P, Q) THEN POINT_AT_INFINITY
    ELSE IF P.x = Q.x /\ P.y = Q.y
         THEN IF P.y = 0 THEN POINT_AT_INFINITY
              ELSE ThirdPoint(TangentSlope(P, curve), P, Q, curve)
         ELSE ThirdPoint(ChordSlope(P, Q, curve), P, Q, curve)

addPoints(P, Q, curve) ==
    IF P.isInfinity THEN Q
    ELSE IF Q.isInfinity THEN P
    ELSE IF AreInverses(P, Q) THEN POINT_AT_INFINITY
    ELSE IF P.x = Q.x /\ P.y = Q.y
         THEN IF P.y = 0 THEN POINT_AT_INFINITY
              ELSE ThirdPoint(TangentSlope(P, curve), P, Q, curve)
         ELSE ThirdPoint(ChordSlope(P, Q, curve), P, Q, curve)

\* the denominators addPoints(P, Q, curve) hands to modInverse, in order
addPointsDenominators(P, Q, curve) ==
    IF P.isInfinity \/ Q.isInfinity THEN <<>>
    ELSE IF AreInverses(P, Q) THEN <<>>
    ELSE IF P.x = Q.x /\ P.y = Q.y
         THEN IF P.y = 0 THEN <<>>
              ELSE <<TangentDenominator(P, curve)>>
         ELSE <<ChordDenominator(P, Q, curve)>>

\* the while loop of scalarMultiply on the state (k, result, addend)
RECURSIVE scalarMultiplyLoop(_, _, _, _)
scalarMultiplyLoop(k, result, addend, curve) ==
    IF k > 0
    THEN scalarMultiplyLoop(k \div 2,
                            IF k % 2 = 1 THEN addPoints(result, addend, curve)
                                         ELSE result,
                            addPoints(addend, addend, curve),
                            curve)
    ELSE result

\* scalarMultiply whose result starts at P, not at infinity
scalarMultiplyFromP(k, P, curve) ==
    IF k = 0 \/ P.isInfinity THEN POINT_AT_INFINITY
    ELSE scalarMultiplyLoop(k, P, P, curve)

scalarMultiply(k, P, curve) ==
    IF k = 0 \/ P.isInfinity THEN POINT_AT_INFINITY
    ELSE scalarMultiplyLoop(k, POINT_AT_INFINITY, P, curve)

\* the points pushed for x in lo..hi, in order: for each x the roots
\* modSqrt returns for x^3 + a x + b, as (x, y)
RECURSIVE getAllPointsRange(_, _, _)
getAllPointsRange(lo, hi, curve) ==
    IF lo > hi THEN <<>>
    ELSE IF lo = hi
    THEN LET ySquared == mod(lo * lo * lo + curve.a * lo + curve.b, curve.p)
             yValues  == modSqrt(ySquared, curve.p)
         IN  [j \in 1..Len(yValues) |-> Affine(lo, yValues[j])]
    ELSE LET middle == (lo + hi) \div 2
         IN  getAllPointsRange(lo, middle, curve)
                 \o getAllPointsRange(middle + 1, hi, curve)

\* getAllPoints in finite-field mode with p <= 1000
getAllPoints(curve) ==
    <<POINT_AT_INFINITY>> \o getAllPointsRange(0, curve.p - 1, curve)

\* the earlier getAllPoints: for the x values lo..hi in order, every y in
\* [0, p) in order with y^2 = x^3 + a x + b (mod p)
RECURSIVE getAllPointsBruteForceRange(_, _, _)
getAllPointsBruteForceRange(lo, hi, curve) ==
    IF lo > hi THEN <<>>
    ELSE IF lo = hi
    THEN LET ySquared == mod(lo * lo * lo + curve.a * lo + curve.b, curve.p)
         IN  SelectSeq([j \in 1..curve.p |-> Affine(lo, j - 1)],
                       LAMBDA pt : mod(pt.y * pt.y, curve.p) = ySquared)
    ELSE LET middle == (lo + hi) \div 2
         IN  getAllPointsBruteForceRange(lo, middle, curve)
                 \o getAllPointsBruteForceRange(middle + 1, hi, curve)

getAllPointsBruteForce(curve) ==
    <<POINT_AT_INFINITY>> \o getAllPointsBruteForceRange(0, curve.p - 1, curve)

\* calculateYFromX in finite-field mode
calculateYFromX(x, curve) ==
    LET ySquared == mod(x * x * x + curve.a * x + curve.b, curve.p)
    IN  modSqrt(ySquared, curve.p)

(***************************************************************************)
(* Key agreement.                                                          *)
(***************************************************************************)
\* generatePrivateKey without the + 1
generatePrivateKeyFromZero(n, i) == FloorDiv(i * (n - 1), RandomResolution)

\* Math.floor(Math.random() * (n - 1)) + 1 with Math.random() = i / RandomResolution
generatePrivateKey(n, i) == FloorDiv(i * (n - 1), RandomResolution) + 1

computePublicKey(privateKey, c) == scalarMultiply(privateKey, c.G, c)

deriveSharedSecret(privateKey, publicKey, c) == scalarMultiply(privateKey, publicKey, c)

RandomDraws == 0..(RandomResolution - 1)

(***************************************************************************)
(* Signature scheme.                                                       *)
(***************************************************************************)
\* A message is the sequence of the UTF-16 code units of the string.
\* hash = ((hash << 5) - hash + charCode) | 0, on the two 16-bit halves of
\* the 32-bit pattern of hash
RECURSIVE simpleHashLoop(_, _, _, _)
simpleHashLoop(message, i, hi, lo) ==
    IF i > Len(message) THEN <<hi, lo>>
    ELSE LET low == 31 * lo + message[i]
         IN  simpleHashLoop(message, i + 1,
                            (31 * hi + low \div 65536) % 65536, low % 65536)

\* Math.abs of the signed 32-bit integer with the given halves, as the two
\* 16-bit halves <<hi, lo>> of its value hi * 2^16 + lo; Math.abs(-2^31) is
\* the number 2^31, <<32768, 0>>.  (Int32Unsigned: the same without Math.abs,
\* the bit pattern read as an unsigned number.)
Int32Unsigned(hi, lo) == <<hi, lo>>

AbsInt32(hi, lo) ==
    IF hi < 32768 THEN <<hi, lo>>
    ELSE IF lo = 0 THEN <<65536 - hi, 0>>
    ELSE <<65535 - hi, 65536 - lo>>

\* the halves <<hi, lo>> of the number returned
simpleHash(message) ==
    LET halves == simpleHashLoop(message, 1, 0, 0)
    IN  AbsInt32(halves[1], halves[2])

\* hash % n for a hash given by its halves and n > 0
HashRem(hash, n) == ((hash[1] % n) * (65536 % n) + hash[2]) % n

\* Math.ceil(Math.sqrt(v)): the least i with i * i >= v
RECURSIVE CeilSqrtFrom(_, _)
CeilSqrtFrom(v, i) == IF i * i >= v THEN i ELSE CeilSqrtFrom(v, i + 1)

CeilSqrt(v) == CeilSqrtFrom(v, 0)

\* One test of the guard of the order-recovery loop of signMessage and, when
\* it holds, one run of its body, on the state (Q, order); the state is left
\* as it is once the guard fails.
signOrderStep(st, limit, c) ==
    IF ~st.Q.isInfinity /\ st.order <= limit
    THEN [Q |-> addPoints(st.Q, c.G, c), order |-> st.order + 1]
    ELSE st

\* count steps of the loop, split in halves to keep the evaluation shallow
\* (the test of half.order, which is always positive, makes the first half
\* run before the second starts)
RECURSIVE signOrderSteps(_, _, _, _)
signOrderSteps(count, st, limit, c) ==
    IF count = 0 THEN st
    ELSE IF count = 1 THEN signOrderStep(st, limit, c)
    ELSE LET half == signOrderSteps(count \div 2, st, limit, c)
         IN  IF half.order > 0
             THEN signOrderSteps(count - count \div 2, half, limit, c)
             ELSE half

\* signOrderLoop that starts counting at 0
signOrderLoopFromZero(limit, c) ==
    signOrderSteps(limit, [Q |-> c.G, order |-> 0], limit, c).order

\* the while loop: order grows by one per pass, so the guard fails within
\* limit passes
signOrderLoop(limit, c) ==
    signOrderSteps(limit, [Q |-> c.G, order |-> 1], limit, c).order

\* the n that signMessage works with
signOrder(c) ==
    LET candidate == c.n
        isValid   == scalarMultiply(candidate, c.G, c).isInfinity
    IN  IF isValid THEN candidate
        ELSE signOrderLoop(c.p + 2 * CeilSqrt(c.p) + 10, c)

\* the same loop in verifySignature
verifyOrderStep(st, limit, c) ==
    IF ~st.Q.isInfinity /\ st.order <= limit
    THEN [Q |-> addPoints(st.Q, c.G, c), order |-> st.order + 1]
    ELSE st

RECURSIVE verifyOrderSteps(_, _, _, _)
verifyOrderSteps(count, st, limit, c) ==
    IF count = 0 THEN st
    ELSE IF count = 1 THEN verifyOrderStep(st, limit, c)
    ELSE LET half == verifyOrderSteps(count \div 2, st, limit, c)
         IN  IF half.order > 0
             THEN verifyOrderSteps(count - count \div 2, half, limit, c)
             ELSE half

verifyOrderLoop(limit, c) ==
    verifyOrderSteps(limit, [Q |-> c.G, order |-> 1], limit, c).order

\* the n that verifySignature works with
verifyOrder(c) ==
    LET candidate == c.n
        isValid   == scalarMultiply(candidate, c.G, c).isInfinity
    IN  IF isValid THEN candidate
        ELSE verifyOrderLoop(c.p + 2 * CeilSqrt(c.p) + 10, c)

Signature(r, s) == [r |-> r, s |-> s]

\* s = k^-1 * (z + r * privateKey) mod n
signS(nonce, r, z, privateKey, n) ==
    LET kInv == modInverse(nonce, n)
    IN  mod(kInv * (z + r * privateKey), n)

\* OutOfRange that lets r = n and s = n through
OutOfRangeOffByOne(r, s, n) == r <= 0 \/ r > n \/ s <= 0 \/ s > n

\* the range check of verifySignature: TRUE when the signature is rejected
OutOfRange(r, s, n) == r <= 0 \/ r >= n \/ s <= 0 \/ s >= n

\* verifySignature: the value returned, with the n it used and the helper
\* calls it made on the signature
verifySignature(message, signature, publicKey, c) ==
    LET r == signature.r
        s == signature.s
        n == verifyOrder(c)
    IN  IF OutOfRange(r, s, n)
        THEN [n |-> n, calls |-> <<>>, point |-> POINT_AT_INFINITY, value |-> FALSE]
        ELSE LET z     == HashRem(simpleHash(message), n)
                 w     == modInverse(s, n)
                 u1    == mod(z * w, n)
                 u2    == mod(r * w, n)
                 u1G   == scalarMultiply(u1, c.G, c)
                 u2Q   == scalarMultiply(u2, publicKey, c)
                 point == addPoints(u1G, u2Q, c)
             IN  [n |-> n,
                  calls |-> <<"modInverse", "scalarMultiply", "scalarMultiply",
                              "addPoints">>,
                  point |-> point,
                  value |-> IF point.isInfinity \/ point.x = Null THEN FALSE
                            ELSE mod(point.x, n) = r]

(***************************************************************************)
(* Curves of the model.                                                    *)
(***************************************************************************)
\* every pair of residues, and the infinity point
AllPoints(p) ==
    {POINT_AT_INFINITY} \cup {Affine(x, y) : x \in 0..(p - 1), y \in 0..(p - 1)}

\* the points that satisfy isOnCurve
CurvePoints(c) == {pt \in AllPoints(c.p) : isOnCurve(pt, c)}

\* the least m >= 1 with m.G = infinity, by repeated addition; a curve over
\* F_p has at most 2p + 1 points
RECURSIVE OrderFrom(_, _, _)
OrderFrom(Qm, m, c) ==
    IF Qm.isInfinity \/ m > 2 * c.p THEN m
    ELSE OrderFrom(addPoints(Qm, c.G, c), m + 1, c)

TrueOrder(c) == OrderFrom(c.G, 1, c)

\* the curves y^2 = x^3 + a x + b over F_p, each with a base point on the
\* curve and the order of that point as the stated n
CurvesOver(p) ==
    UNION {LET c0 == CurveParams(a, b, p, POINT_AT_INFINITY, 1)
           IN  {LET c1 == CurveParams(a, b, p, g, 1)
                IN  CurveParams(a, b, p, g, TrueOrder(c1)) :
                    g \in CurvePoints(c0) \ {POINT_AT_INFINITY}} :
           a \in 0..(p - 1), b \in 0..(p - 1)}

SmallCurves == UNION {CurvesOver(p) : p \in SmallPrimes}

\* the curves over F_2, which the code accepts although the modulus is
\* meant to be an odd prime; the stated n is arbitrary there
DegenerateCurves ==
    UNION {LET c0 == CurveParams(a, b, 2, POINT_AT_INFINITY, 1)
           IN  {CurveParams(a, b, 2, g, 2) :
                    g \in CurvePoints(c0) \ {POINT_AT_INFINITY}} :
           a \in 0..1, b \in 0..1}

\* the points of the textbook example y^2 = x^3 + 7 over F_223
TextbookPoints == {Affine(47, 71), Affine(192, 105), Affine(17, 56)}

\* the operands offered on a curve: its points, its base point, and the
\* textbook points when they are residues
InputPoints(c) ==
    CurvePoints(c) \cup {c.G}
        \cup {pt \in TextbookPoints : pt.x < c.p /\ pt.y < c.p}

\* y^2 = x^3 + x + 6 over F_11 with base point (2, 7) of prime order 13
\* (stated rightly, stated as 12, stated as the multiple 26), and
\* y^2 = x^3 + 2x + 4 over F_13 with base point (0, 2) of prime order 17
SignCurves ==
    {CurveParams(1, 6, 11, Affine(2, 7), 13),
     CurveParams(1, 6, 11, Affine(2, 7), 12),
     CurveParams(1, 6, 11, Affine(2, 7), 26),
     CurveParams(2, 4, 13, Affine(0, 2), 17),
     defaultCurve}

\* the small curves with the order of the base point stated one too low or
\* one too high
MisstatedCurves ==
    UNION {{[c EXCEPT !.n = c.n - 1], [c EXCEPT !.n = c.n + 1]} : c \in SmallCurves}

\* curves over primes p = 1 (mod 4), where modSqrt runs its general case:
\* y^2 = x^3 + 2x + 4 over F_13, y^2 = x^3 + 2x + 2 over F_17 and
\* y^2 = x^3 + x + 3 over F_41, each with a base point and its order
RootCurves ==
    {CurveParams(2, 4, 13, Affine(0, 2), 17),
     CurveParams(2, 2, 17, Affine(5, 1), 19),
     CurveParams(1, 3, 41, Affine(1, 13), 13)}

\* "", "a", "n", "ab", "tamper"
Messages ==
    {<<>>, <<97>>, <<110>>, <<97, 98>>, <<116, 97, 109, 112, 101, 114>>}

(***************************************************************************)
(* State.                                                                  *)
(***************************************************************************)
VARIABLES
    curve,      \* the CurveParams every operation is applied to
    op,         \* group law: the operation applied, "none" before it
    P, Q, k,    \* group law: the operands
    result,     \* group law: the point returned
    alice, bob, \* key agreement: privateKey, publicKey, sharedSecret of a party
    signer,     \* signature scheme: privateKey and publicKey of the signer
    sign,       \* the running invocation of signMessage: its step (pc), its
                \* arguments and its local variables
    signature,  \* the Signature that signMessage returned
    verified,   \* the last call of verifySignature: its arguments and its run
    call,       \* the helper function applied on its own: its name, its
                \* arguments and the value it returned
    sim         \* the simulator component on screen: the rest of its state

calcVars == <<op, P, Q, k, result>>
ecdhVars == <<alice, bob>>
ecdsaVars == <<signer, sign, signature, verified>>
vars == <<curve, calcVars, ecdhVars, ecdsaVars, call, sim>>

\* a Point variable that holds null
NullPoint == [x |-> Null, y |-> Null, isInfinity |-> FALSE]

NoKeys == [privateKey |-> Null, publicKey |-> NullPoint, sharedSecret |-> NullPoint]

CalcIdle ==
    /\ op = "none"
    /\ P = POINT_AT_INFINITY
    /\ Q = POINT_AT_INFINITY
    /\ k = 0
    /\ result = POINT_AT_INFINITY

EcdhIdle == alice = NoKeys /\ bob = NoKeys

NoSigner == [privateKey |-> Null, publicKey |-> NullPoint]

\* no invocation of signMessage is running
NoSign == [pc |-> "idle", message |-> <<>>, privateKey |-> Null,
           curve |-> CurveParams(0, 0, 0, NullPoint, 0), n |-> Null, z |-> Null, k |-> Null,
           kG |-> POINT_AT_INFINITY, r |-> Null, s |-> Null]

NoSignature == Signature(Null, Null)

NoVerification == [done |-> FALSE, message |-> <<>>, signature |-> NoSignature,
                   publicKey |-> NullPoint,
                   run |-> [n |-> Null, calls |-> <<>>,
                            point |-> POINT_AT_INFINITY, value |-> FALSE]]

EcdsaIdle ==
    /\ signer = NoSigner
    /\ sign = NoSign
    /\ signature = NoSignature
    /\ verified = NoVerification

\* no helper function has been applied
NoCall == [fn |-> "none"]

CallIdle == call = NoCall

\* no simulator component is on screen
NoSim == [component |-> "none"]

SimIdle == sim = NoSim

(***************************************************************************)
(* The group law applied once: addPoints or scalarMultiply on operands      *)
(* drawn from the points offered on the curve.                             *)
(***************************************************************************)
Init ==
    /\ curve \in SmallCurves \cup DegenerateCurves \cup {defaultCurve}
    /\ CalcIdle
    /\ EcdhIdle
    /\ EcdsaIdle
    /\ CallIdle
    /\ SimIdle

ApplyAddPoints ==
    /\ op = "none"
    /\ \E point1 \in InputPoints(curve), point2 \in InputPoints(curve) :
        /\ P' = point1
        /\ Q' = point2
        /\ result' = addPoints(point1, point2, curve)
    /\ op' = "addPoints"
    /\ UNCHANGED <<sim, curve, call, k, ecdhVars, ecdsaVars>>

ApplyScalarMultiply ==
    /\ op = "none"
    /\ \E point1 \in InputPoints(curve),
          scalar \in (-MaxNegated)..MaxScalar \cup {curve.n} :
        /\ P' = point1
        /\ k' = scalar
        /\ result' = scalarMultiply(scalar, point1, curve)
    /\ op' = "scalarMultiply"
    /\ UNCHANGED <<sim, curve, call, Q, ecdhVars, ecdsaVars>>

Next == ApplyAddPoints \/ ApplyScalarMultiply

Spec == Init /\ [][Next]_vars

(***************************************************************************)
(* Key agreement applied once: a key pair for each of two parties, then    *)
(* the shared secret each of them derives.                                 *)
(***************************************************************************)
\* the keys generatePrivateKey(curve.n) can return
PrivateKeys(c) == {generatePrivateKey(c.n, i) : i \in RandomDraws}

\* the keys the signer is given: those up to MaxPrivateKey
SignerKeys(c) == {d \in PrivateKeys(c) : d <= MaxPrivateKey}

KeyPair(d, c) == [privateKey |-> d, publicKey |-> computePublicKey(d, c),
                  sharedSecret |-> NullPoint]

InitECDH ==
    /\ curve \in SmallCurves \cup {defaultCurve}
    /\ CalcIdle
    /\ EcdhIdle
    /\ EcdsaIdle
    /\ CallIdle
    /\ SimIdle

AliceKeyPair ==
    /\ alice.privateKey = Null
    /\ \E d \in PrivateKeys(curve) : alice' = KeyPair(d, curve)
    /\ UNCHANGED <<sim, curve, call, calcVars, bob, ecdsaVars>>

BobKeyPair ==
    /\ bob.privateKey = Null
    /\ \E d \in PrivateKeys(curve) : bob' = KeyPair(d, curve)
    /\ UNCHANGED <<sim, curve, call, calcVars, alice, ecdsaVars>>

DeriveSharedSecrets ==
    /\ alice.privateKey # Null
    /\ bob.privateKey # Null
    /\ alice.sharedSecret = NullPoint
    /\ alice' = [alice EXCEPT !.sharedSecret =
                    deriveSharedSecret(alice.privateKey, bob.publicKey, curve)]
    /\ bob' = [bob EXCEPT !.sharedSecret =
                    deriveSharedSecret(bob.privateKey, alice.publicKey, curve)]
    /\ UNCHANGED <<sim, curve, call, calcVars, ecdsaVars>>

NextECDH == AliceKeyPair \/ BobKeyPair \/ DeriveSharedSecrets

SpecECDH == InitECDH /\ [][NextECDH]_vars

(***************************************************************************)
(* Signature scheme: signMessage step by step, then verifySignature.       *)
(***************************************************************************)
InitECDSA ==
    /\ curve \in SignCurves
    /\ CalcIdle
    /\ EcdhIdle
    /\ EcdsaIdle
    /\ CallIdle
    /\ SimIdle

SignerKeyPair ==
    /\ signer.privateKey = Null
    /\ ~verified.done
    /\ \E d \in SignerKeys(curve) :
        signer' = [privateKey |-> d, publicKey |-> computePublicKey(d, curve)]
    /\ UNCHANGED <<sim, curve, call, calcVars, ecdhVars, sign, signature, verified>>

\* entry of signMessage(message, privateKey, c): n and z are computed
SignEnter(message, privateKey, c) ==
    LET n == signOrder(c)
    IN  [pc |-> "GenerateNonce", message |-> message, privateKey |-> privateKey,
         curve |-> c, n |-> n, z |-> HashRem(simpleHash(message), n), k |-> Null,
         kG |-> POINT_AT_INFINITY, r |-> Null, s |-> Null]

\* return signMessage(message, privateKey, { ...curve, n })
SignRetry == SignEnter(sign.message, sign.privateKey, [sign.curve EXCEPT !.n = sign.n])

SignCall ==
    /\ sign.pc = "idle"
    /\ signer.privateKey # Null
    /\ \E m \in Messages : sign' = SignEnter(m, signer.privateKey, curve)
    /\ UNCHANGED <<sim, curve, call, calcVars, ecdhVars, signer, signature, verified>>

\* let k = generatePrivateKey(n), for the draw i of Math.random
DrawNonce(i) ==
    /\ sign.pc = "GenerateNonce"
    /\ sign' = [sign EXCEPT !.k = generatePrivateKey(sign.n, i), !.pc = "ComputeR"]
    /\ UNCHANGED <<sim, curve, call, calcVars, ecdhVars, signer, signature, verified>>

GenerateNonce == \E i \in RandomDraws : DrawNonce(i)

ComputeR ==
    /\ sign.pc = "ComputeR"
    /\ LET kG == scalarMultiply(sign.k, sign.curve.G, sign.curve)
       IN  IF kG.isInfinity \/ kG.x = Null
           THEN sign' = SignRetry
           ELSE LET r == mod(kG.x, sign.n)
                IN  IF r = 0
                    THEN sign' = SignRetry
                    ELSE sign' = [sign EXCEPT !.kG = kG, !.r = r, !.pc = "ComputeS"]
    /\ UNCHANGED <<sim, curve, call, calcVars, ecdhVars, signer, signature, verified>>

\* ComputeS that returns the signature without the test of s = 0
ComputeSWithoutRetry ==
    /\ sign.pc = "ComputeS"
    /\ LET s == signS(sign.k, sign.r, sign.z, sign.privateKey, sign.n)
       IN  /\ sign' = [sign EXCEPT !.s = s, !.pc = "Accept"]
           /\ signature' = Signature(sign.r, s)
    /\ UNCHANGED <<sim, curve, call, calcVars, ecdhVars, signer, verified>>

ComputeS ==
    /\ sign.pc = "ComputeS"
    /\ LET s == signS(sign.k, sign.r, sign.z, sign.privateKey, sign.n)
       IN  IF s = 0
           THEN /\ sign' = SignRetry
                /\ UNCHANGED signature
           ELSE /\ sign' = [sign EXCEPT !.s = s, !.pc = "Accept"]
                /\ signature' = Signature(sign.r, s)
    /\ UNCHANGED <<sim, curve, call, calcVars, ecdhVars, signer, verified>>

Verification(message, sig, publicKey) ==
    [done |-> TRUE, message |-> message, signature |-> sig, publicKey |-> publicKey,
     run |-> verifySignature(message, sig, publicKey, curve)]

\* verifySignature on the signature signMessage returned, for any message
VerifySigned ==
    /\ sign.pc = "Accept"
    /\ ~verified.done
    /\ \E m \in Messages : verified' = Verification(m, signature, signer.publicKey)
    /\ UNCHANGED <<sim, curve, call, calcVars, ecdhVars, signer, sign, signature>>

\* the values of r and s offered to verifySignature: around 0, around the
\* order it uses, around the stated n
ForeignValues(c) ==
    LET n == verifyOrder(c)
    IN  IF n <= MaxPrivateKey + 1 THEN (-1)..(n + 1)
        ELSE {-1, 0, 1, 2, n - 1, n, n + 1, c.n - 1, c.n, c.n + 1}

\* verifySignature on any signature and any public key
VerifyForeign ==
    /\ signer.privateKey = Null
    /\ ~verified.done
    /\ \E m \in Messages, r \in ForeignValues(curve), s \in ForeignValues(curve),
          d \in SignerKeys(curve) \cup {0} :
        verified' = Verification(m, Signature(r, s), computePublicKey(d, curve))
    /\ UNCHANGED <<sim, curve, call, calcVars, ecdhVars, signer, sign, signature>>

NextECDSA ==
    \/ SignerKeyPair
    \/ SignCall
    \/ GenerateNonce
    \/ ComputeR
    \/ ComputeS
    \/ VerifySigned
    \/ VerifyForeign

SpecECDSA == InitECDSA /\ [][NextECDSA]_vars

(***************************************************************************)
(* The arithmetic helpers applied once on their own: modSqrt, modInverse   *)
(* and generatePrivateKey.                                                 *)
(***************************************************************************)
\* the number of passes of the while loop of modInverse
RECURSIVE modInversePasses(_, _)
modInversePasses(old_r, r) ==
    IF r = 0 THEN 0
    ELSE 1 + modInversePasses(r, old_r - FloorDiv(old_r, r) * r)

InitArith ==
    /\ curve = defaultCurve
    /\ CalcIdle
    /\ EcdhIdle
    /\ EcdsaIdle
    /\ CallIdle
    /\ SimIdle

ApplyModSqrt ==
    /\ call.fn = "none"
    /\ \E p \in RootPrimes :
        \E n \in (-p)..(2 * p) :
            call' = [fn |-> "modSqrt", n |-> n, p |-> p, ret |-> modSqrt(n, p)]
    /\ UNCHANGED <<sim, curve, calcVars, ecdhVars, ecdsaVars>>

ApplyModInverse ==
    /\ call.fn = "none"
    /\ \E m \in 2..MaxModulus :
        \E a \in 1..(m - 1) :
            call' = [fn |-> "modInverse", a |-> a, m |-> m,
                     ret |-> modInverse(a, m),
                     passes |-> modInversePasses(a, m)]
    /\ UNCHANGED <<sim, curve, calcVars, ecdhVars, ecdsaVars>>

ApplyGeneratePrivateKey ==
    /\ call.fn = "none"
    /\ \E n \in 2..(RandomResolution + 1), i \in RandomDraws :
        call' = [fn |-> "generatePrivateKey", n |-> n, i |-> i,
                 ret |-> generatePrivateKey(n, i)]
    /\ UNCHANGED <<sim, curve, calcVars, ecdhVars, ecdsaVars>>

\* the messages of the model, "Hello, World!", and the five code units
\* U+0914 % x e ~, whose hash is -2^31 before Math.abs
HashMessages ==
    Messages \cup
    {<<72, 101, 108, 108, 111, 44, 32, 87, 111, 114, 108, 100, 33>>,
     <<2324, 37, 120, 101, 126>>}

\* simpleHash(message) and the z = simpleHash(message) % n of signMessage and
\* verifySignature
ApplySimpleHash ==
    /\ call.fn = "none"
    /\ \E message \in HashMessages, n \in 1..MaxModulus \cup {defaultCurve.n} :
        call' = [fn |-> "simpleHash", message |-> message, n |-> n,
                 ret |-> simpleHash(message),
                 z |-> HashRem(simpleHash(message), n)]
    /\ UNCHANGED <<sim, curve, calcVars, ecdhVars, ecdsaVars>>

NextArith ==
    \/ ApplyModSqrt
    \/ ApplyModInverse
    \/ ApplyGeneratePrivateKey
    \/ ApplySimpleHash

SpecArith == InitArith /\ [][NextArith]_vars

(***************************************************************************)
(* The curve helpers applied once on their own: getAllPoints,              *)
(* calculateYFromX and the order that signMessage and verifySignature      *)
(* work with.                                                              *)
(***************************************************************************)
InitPoints ==
    /\ curve \in SmallCurves \cup MisstatedCurves \cup RootCurves \cup {defaultCurve}
    /\ CalcIdle
    /\ EcdhIdle
    /\ EcdsaIdle
    /\ CallIdle
    /\ SimIdle

ApplyGetAllPoints ==
    /\ call.fn = "none"
    /\ call' = [fn |-> "getAllPoints", ret |-> getAllPoints(curve)]
    /\ UNCHANGED <<sim, curve, calcVars, ecdhVars, ecdsaVars>>

\* both versions of getAllPoints on the same curve
ApplyGetAllPointsBruteForce ==
    /\ call.fn = "none"
    /\ call' = [fn |-> "getAllPointsBruteForce",
                ret |-> getAllPointsBruteForce(curve),
                optimized |-> getAllPoints(curve)]
    /\ UNCHANGED <<sim, curve, calcVars, ecdhVars, ecdsaVars>>

ApplyCalculateYFromX ==
    /\ call.fn = "none"
    /\ \E x \in (-curve.p)..(2 * curve.p) :
        call' = [fn |-> "calculateYFromX", x |-> x, ret |-> calculateYFromX(x, curve)]
    /\ UNCHANGED <<sim, curve, calcVars, ecdhVars, ecdsaVars>>

ApplyOrderRecovery ==
    /\ call.fn = "none"
    /\ call' = [fn |-> "order", sign |-> signOrder(curve), verify |-> verifyOrder(curve)]
    /\ UNCHANGED <<sim, curve, calcVars, ecdhVars, ecdsaVars>>

NextPoints ==
    \/ ApplyGetAllPoints
    \/ ApplyGetAllPointsBruteForce
    \/ ApplyCalculateYFromX
    \/ ApplyOrderRecovery

SpecPoints == InitPoints /\ [][NextPoints]_vars

(***************************************************************************)
(* signMessage on the default curve, for private keys over the whole of    *)
(* [1, n - 1].                                                             *)
(***************************************************************************)
\* private keys at the ends of [1, n - 1] and around the order of G
SigningKeys(c) ==
    {1, signOrder(c) - 1, signOrder(c), c.n - 1} \cap 1..(c.n - 1)

InitSigning ==
    /\ curve = defaultCurve
    /\ CalcIdle
    /\ EcdhIdle
    /\ signer \in {[privateKey |-> d, publicKey |-> computePublicKey(d, curve)] :
                       d \in SigningKeys(curve)}
    /\ sign = NoSign
    /\ signature = NoSignature
    /\ verified = NoVerification
    /\ CallIdle
    /\ SimIdle

NextSigning == SignCall \/ GenerateNonce \/ ComputeR \/ ComputeS

SpecSigning == InitSigning /\ [][NextSigning]_vars

(***************************************************************************)
(* ECDHSimulator on the default curve: generateAliceKeys, generateBobKeys, *)
(* exchangeKeys and reset, any number of times in any order.  alice and    *)
(* bob are the two PartyKeys; sim holds currentStep, the two aesKey fields *)
(* and the invocations of exchangeKeys that are waiting in their awaits.   *)
(* (encryptAndSend and decryptReceived change none of the PartyKeys.)      *)
(***************************************************************************)
\* the key deriveAESKey(x, y) derives, named by its key material `${x}-${y}`;
\* a null coordinate gives the material "null"
deriveAESKey(x, y) == <<x, y>>

\* private keys generatePrivateKey(c.n) can return: 1, the order of G under
\* the group law of the code, and two keys whose product is that order
SimulatorKeys(c) ==
    LET order == signOrder(c)
    IN  {1, 7, order \div 7, order} \cap 1..(c.n - 1)

InitSimECDH ==
    /\ curve = defaultCurve
    /\ CalcIdle
    /\ EcdhIdle
    /\ EcdsaIdle
    /\ CallIdle
    /\ sim = [component |-> "ECDHSimulator", currentStep |-> 0,
              aliceAESKey |-> Null, bobAESKey |-> Null, exchanges |-> {}]

generateAliceKeys ==
    /\ \E privateKey \in SimulatorKeys(curve) :
        alice' = [alice EXCEPT !.privateKey = privateKey,
                               !.publicKey = computePublicKey(privateKey, curve)]
    /\ sim' = [sim EXCEPT !.currentStep = 1]
    /\ UNCHANGED <<curve, call, calcVars, bob, ecdsaVars>>

generateBobKeys ==
    /\ \E privateKey \in SimulatorKeys(curve) :
        bob' = [bob EXCEPT !.privateKey = privateKey,
                           !.publicKey = computePublicKey(privateKey, curve)]
    /\ sim' = [sim EXCEPT !.currentStep = 2]
    /\ UNCHANGED <<curve, call, calcVars, alice, ecdsaVars>>

\* exchangeKeys up to its awaits: the guard and the two shared secrets, from
\* the PartyKeys of the render in which the button was pressed
exchangeKeysCall ==
    /\ alice.privateKey # Null
    /\ bob.publicKey # NullPoint
    /\ bob.privateKey # Null
    /\ alice.publicKey # NullPoint
    /\ Cardinality(sim.exchanges) < MaxInFlight
    /\ LET aliceShared == deriveSharedSecret(alice.privateKey, bob.publicKey, curve)
           bobShared   == deriveSharedSecret(bob.privateKey, alice.publicKey, curve)
       IN  sim' = [sim EXCEPT !.exchanges = @ \cup
                     {[aliceShared |-> aliceShared,
                       aliceAESKey |-> deriveAESKey(aliceShared.x, aliceShared.y),
                       bobShared   |-> bobShared,
                       bobAESKey   |-> deriveAESKey(bobShared.x, bobShared.y)]}]
    /\ UNCHANGED <<curve, call, calcVars, ecdhVars, ecdsaVars>>

\* exchangeKeys after its awaits: the functional updates of the PartyKeys
\* then held
exchangeKeysResume ==
    \E e \in sim.exchanges :
        /\ alice' = [alice EXCEPT !.sharedSecret = e.aliceShared]
        /\ bob' = [bob EXCEPT !.sharedSecret = e.bobShared]
        /\ sim' = [sim EXCEPT !.aliceAESKey = e.aliceAESKey,
                              !.bobAESKey = e.bobAESKey,
                              !.currentStep = 3,
                              !.exchanges = @ \ {e}]
        /\ UNCHANGED <<curve, call, calcVars, ecdsaVars>>

resetECDH ==
    /\ alice' = NoKeys
    /\ bob' = NoKeys
    /\ sim' = [sim EXCEPT !.aliceAESKey = Null, !.bobAESKey = Null,
                          !.currentStep = 0]
    /\ UNCHANGED <<curve, call, calcVars, ecdsaVars>>

NextSimECDH ==
    \/ generateAliceKeys
    \/ generateBobKeys
    \/ exchangeKeysCall
    \/ exchangeKeysResume
    \/ resetECDH

SpecSimECDH == InitSimECDH /\ [][NextSimECDH]_vars

(***************************************************************************)
(* addPoints applied twice to three operands, in both groupings, on the    *)
(* curves that Apply Curve Parameters can set: a, b and p entered, G and n *)
(* kept from the default curve.                                            *)
(***************************************************************************)
AppliedCurvesOver(p) ==
    {CurveParams(a, b, p, defaultCurve.G, defaultCurve.n) :
        a \in 0..(p - 1), b \in 0..(p - 1)}

AppliedCurves == UNION {AppliedCurvesOver(p) : p \in SmallPrimes}

\* the points on the curve with x <= MaxOperandX, and infinity
Operands(c) ==
    {POINT_AT_INFINITY} \cup
    {pt \in {Affine(x, y) : x \in 0..(c.p - 1) \cap 0..MaxOperandX,
                            y \in 0..(c.p - 1)} : isOnCurve(pt, c)}

InitSums ==
    /\ curve \in AppliedCurves \cup {defaultCurve}
    /\ CalcIdle
    /\ EcdhIdle
    /\ EcdsaIdle
    /\ CallIdle
    /\ SimIdle

ApplyAddPointsTwice ==
    /\ call.fn = "none"
    /\ \E P1 \in Operands(curve), P2 \in Operands(curve), P3 \in Operands(curve) :
        call' = [fn |-> "addPoints", P |-> P1, Q |-> P2, R |-> P3,
                 left  |-> addPoints(addPoints(P1, P2, curve), P3, curve),
                 right |-> addPoints(P1, addPoints(P2, P3, curve), curve)]
    /\ UNCHANGED <<sim, curve, calcVars, ecdhVars, ecdsaVars>>

NextSums == ApplyAddPointsTwice

SpecSums == InitSums /\ [][NextSums]_vars

(***************************************************************************)
(* ECDSASimulator on a fixed curve: generateKeys, signDoc, verify and      *)
(* reset, and the two text inputs, any number of times in any order.       *)
(* signer holds signerPrivateKey and signerPublicKey, signature the held   *)
(* signature; sim holds message, tamperedMessage, verificationResult       *)
(* ("null", "true" or "false") and currentStep, and with signedWith the    *)
(* private key that was passed to signMessage for the held signature.      *)
(***************************************************************************)
\* the texts typed into the message inputs: "", "a", "ab"
SimulatorMessages == {<<>>, <<97>>, <<97, 98>>}

\* one attempt of signMessage, from its entry (n and z computed) and with the
\* draw i of Math.random for its nonce: the locals at its end, and whether
\* the attempt returns the signature (Accept) or calls signMessage again
\* (Retry)
SignAttempt(entry, i) ==
    LET nonce == generatePrivateKey(entry.n, i)
        kG    == scalarMultiply(nonce, entry.curve.G, entry.curve)
    IN  IF kG.isInfinity \/ kG.x = Null
        THEN [entry EXCEPT !.k = nonce, !.pc = "Retry"]
        ELSE LET r == mod(kG.x, entry.n)
                 s == signS(nonce, r, entry.z, entry.privateKey, entry.n)
             IN  [entry EXCEPT !.k = nonce, !.kG = kG, !.r = r, !.s = s,
                               !.pc = IF r = 0 \/ s = 0 THEN "Retry" ELSE "Accept"]

InitSimECDSA ==
    /\ curve \in SignCurves
    /\ CalcIdle
    /\ EcdhIdle
    /\ EcdsaIdle
    /\ CallIdle
    /\ sim = [component |-> "ECDSASimulator", message |-> <<>>,
              tamperedMessage |-> <<>>, verificationResult |-> "null",
              currentStep |-> 0, signedWith |-> Null]

\* onChange of the message input
setMessage ==
    /\ \E text \in SimulatorMessages : sim' = [sim EXCEPT !.message = text]
    /\ UNCHANGED <<curve, call, calcVars, ecdhVars, ecdsaVars>>

\* onChange of the tampered-message input, shown while a signature is held
setTamperedMessage ==
    /\ signature # NoSignature
    /\ \E text \in SimulatorMessages : sim' = [sim EXCEPT !.tamperedMessage = text]
    /\ UNCHANGED <<curve, call, calcVars, ecdhVars, ecdsaVars>>

\* generateKeys that leaves the held signature in place
generateKeysKeepingSignature ==
    /\ \E privateKey \in PrivateKeys(curve) \cap 1..MaxSimulatorKey :
        signer' = [privateKey |-> privateKey,
                   publicKey |-> computePublicKey(privateKey, curve)]
    /\ sim' = [sim EXCEPT !.verificationResult = "null", !.currentStep = 1]
    /\ UNCHANGED <<curve, call, calcVars, ecdhVars, sign, signature, verified>>

generateKeys ==
    /\ \E privateKey \in PrivateKeys(curve) \cap 1..MaxSimulatorKey :
        signer' = [privateKey |-> privateKey,
                   publicKey |-> computePublicKey(privateKey, curve)]
    /\ signature' = NoSignature
    /\ sim' = [sim EXCEPT !.verificationResult = "null", !.currentStep = 1,
                          !.signedWith = Null]
    /\ UNCHANGED <<curve, call, calcVars, ecdhVars, sign, verified>>

\* signDoc when signMessage returns: the retries of signMessage end with an
\* attempt that is accepted, for some draw of the nonce.  (When signMessage
\* throws, signDoc changes nothing.)
signDoc ==
    /\ signer.privateKey # Null
    /\ sim.message # <<>>
    /\ \E entry \in {SignEnter(sim.message, signer.privateKey, curve)} :
        \E i \in RandomDraws :
            \E run \in {SignAttempt(entry, i)} :
                /\ run.pc = "Accept"
                /\ signature' = Signature(run.r, run.s)
    /\ sim' = [sim EXCEPT !.tamperedMessage = sim.message,
                          !.verificationResult = "null",
                          !.currentStep = 2,
                          !.signedWith = signer.privateKey]
    /\ UNCHANGED <<curve, call, calcVars, ecdhVars, signer, sign, verified>>

\* verify(message) or verify(tamperedMessage)
verify ==
    /\ signature # NoSignature
    /\ signer.publicKey # NullPoint
    /\ \E messageToVerify \in {sim.message, sim.tamperedMessage} :
        LET isValid == verifySignature(messageToVerify, signature,
                                       signer.publicKey, curve).value
        IN  sim' = [sim EXCEPT !.verificationResult =
                                   IF isValid THEN "true" ELSE "false",
                               !.currentStep = 3]
    /\ UNCHANGED <<curve, call, calcVars, ecdhVars, ecdsaVars>>

resetECDSA ==
    /\ signer' = NoSigner
    /\ signature' = NoSignature
    /\ sim' = [sim EXCEPT !.message = <<>>, !.tamperedMessage = <<>>,
                          !.verificationResult = "null", !.currentStep = 0,
                          !.signedWith = Null]
    /\ UNCHANGED <<curve, call, calcVars, ecdhVars, sign, verified>>

NextSimECDSA ==
    \/ setMessage
    \/ setTamperedMessage
    \/ generateKeys
    \/ signDoc
    \/ verify
    \/ resetECDSA

SpecSimECDSA == InitSimECDSA /\ [][NextSimECDSA]_vars

(***************************************************************************)
(* Properties.                                                             *)
(***************************************************************************)
OddModulus == curve.p % 2 = 1

\* an affine point with both coordinates in [0, p)
IsResiduePoint(pt) ==
    /\ ~pt.isInfinity
    /\ pt.x \in 0..(curve.p - 1)
    /\ pt.y \in 0..(curve.p - 1)

\* a point that satisfies isOnCurve, with coordinates in [0, p) or infinity
IsCurvePoint(pt) == isOnCurve(pt, curve) /\ (pt.isInfinity \/ IsResiduePoint(pt))

\* both parties have derived their shared secret
SecretsDerived == alice.sharedSecret # NullPoint /\ bob.sharedSecret # NullPoint

\* verifySignature has run on the signature signMessage returned, with the
\* signer's public key
VerifiedSigned == verified.done /\ sign.pc = "Accept"

\* simpleHash(message) % n for the n of the signing run
HashModOrder(message) == HashRem(simpleHash(message), sign.n)

C2_SignatureVerifies ==
    (VerifiedSigned /\ verified.message = sign.message) => verified.run.value

\* C3 (SpecECDSA): a signature (r, s) returned by signMessage has 0 < r < n and
\* 0 < s < n for the n signMessage works with (the stated curve.n when it
\* annihilates G, otherwise the recovered order, which annihilates G); no
\* attempt with r = 0 or s = 0 is returned.
C3_SignatureInRange ==
    sign.pc = "Accept" =>
        /\ signature = Signature(sign.r, sign.s)
        /\ 0 < signature.r /\ signature.r < sign.n
        /\ 0 < signature.s /\ signature.s < sign.n
        /\ scalarMultiply(sign.n, curve.G, curve).isInfinity
        /\ scalarMultiply(curve.n, curve.G, curve).isInfinity => sign.n = curve.n

C3_Witness ==
    /\ sign.pc = "Accept"
    /\ sign.n # curve.n
    /\ signature.r \in 1..(sign.n - 1)
    /\ signature.s = sign.n - 1

\* C4 (SpecECDSA): verifySignature returns false whenever r <= 0, r >= n,
\* s <= 0 or s >= n (n the order it works with), for every message and public
\* key, and then calls neither modInverse nor a point operation on the
\* signature.
C4_OutOfRangeRejected ==
    (/\ verified.done
     /\ \/ verified.signature.r <= 0
        \/ verified.signature.r >= verified.run.n
        \/ verified.signature.s <= 0
        \/ verified.signature.s >= verified.run.n)
    => (~verified.run.value /\ verified.run.calls = <<>>)

C4_Witness ==
    /\ verified.done
    /\ verified.signature.r = verified.run.n
    /\ verified.signature.s \in 1..(verified.run.n - 1)
    /\ ~verified.publicKey.isInfinity
    /\ ~verified.run.value
    /\ verified.run.calls = <<>>

C5_CombinedPoint ==
    LET w  == modInverse(signature.s, sign.n)
        u1 == mod(HashModOrder(verified.message) * w, sign.n)
        u2 == mod(signature.r * w, sign.n)
    IN  scalarMultiply(mod(u1 + u2 * signer.privateKey, sign.n), curve.G, curve)

C6_AdditionClosed ==
    (op = "addPoints" /\ OddModulus /\ IsCurvePoint(P) /\ IsCurvePoint(Q))
    => isOnCurve(result, curve)

C6_Witness ==
    /\ op = "addPoints"
    /\ curve = defaultCurve
    /\ IsCurvePoint(P) /\ IsCurvePoint(Q)
    /\ IsResiduePoint(P) /\ IsResiduePoint(Q)
    /\ P.x # Q.x
    /\ IsResiduePoint(result)
    /\ isOnCurve(result, curve)

\* C7 (Spec): addPoints(P, infinity) = P and addPoints(infinity, P) = P for
\* every point P of a curve, infinity included.
C7_InfinityIsIdentity ==
    op = "addPoints" =>
        /\ (Q.isInfinity /\ IsCurvePoint(P)) => result = P
        /\ (P.isInfinity /\ IsCurvePoint(Q)) => result = Q

C7_Witness ==
    /\ op = "addPoints"
    /\ Q.isInfinity
    /\ IsResiduePoint(P) /\ IsCurvePoint(P)
    /\ result = P

\* the pair P = (x, y), Q = (x, p - y) with P on the curve and y # 0
C8_Opposites ==
    /\ op = "addPoints"
    /\ IsResiduePoint(P) /\ IsCurvePoint(P)
    /\ P.y # 0
    /\ Q = Affine(P.x, curve.p - P.y)

\* C8 as claimed (Spec): for every affine point P = (x, y) on a curve with
\* y # 0 and coordinates in [0, p), addPoints(P, (x, p - y)) is infinity.
C8_OppositesCancel == C8_Opposites => result.isInfinity

\* C8 as amended (Spec): the same, on a curve whose modulus p is odd.
C8_OppositesCancelOddModulus ==
    (C8_Opposites /\ OddModulus) => result.isInfinity

C8_Witness ==
    /\ C8_Opposites
    /\ OddModulus
    /\ curve.p = 7
    /\ result.isInfinity

\* C9 (Spec): on the default curve, scalarMultiply(227, G) is infinity.
C9_DefaultOrderAnnihilatesG ==
    (/\ op = "scalarMultiply"
     /\ curve = defaultCurve
     /\ k = 227
     /\ P = Affine(47, 71))
    => result.isInfinity

\* C10 (Spec): on the curve a = -7, b = 10, p = 223,
\* addPoints((192, 105), (17, 56)) is the affine point (170, 142).
C10_TextbookSum ==
    (/\ op = "addPoints"
     /\ curve.a = -7 /\ curve.b = 10 /\ curve.p = 223
     /\ P = Affine(192, 105)
     /\ Q = Affine(17, 56))
    => result = Affine(170, 142)

C10_Witness ==
    /\ op = "addPoints"
    /\ curve.a = -7 /\ curve.b = 10 /\ curve.p = 223
    /\ P = Affine(192, 105)
    /\ Q = Affine(17, 56)
    /\ result = Affine(170, 142)

\* the residues y in [0, p) with y * y = n (mod p)
SquareRoots(n, p) == {y \in 0..(p - 1) : (y * y - n) % p = 0}

\* the elements of a list
Range(list) == {list[j] : j \in 1..Len(list)}

\* C11 (SpecArith): for an odd prime p and an integer n, every root r that
\* modSqrt(n, p) returns has r * r = n (mod p), and modSqrt(n, p) returns the
\* empty list exactly when n has no square root modulo p.
C11_SquareRootsCorrect ==
    call.fn = "modSqrt" =>
        /\ \A r \in Range(call.ret) : (r * r - call.n) % call.p = 0
        /\ call.ret = <<>> <=> SquareRoots(call.n, call.p) = {}

\* C17 (SpecArith): for an odd prime p and n = 0 (mod p), modSqrt(n, p)
\* returns exactly one root, 0.
C17_ZeroHasRootZero ==
    (call.fn = "modSqrt" /\ call.n % call.p = 0) => call.ret = <<0>>

\* C19 (SpecArith): when modSqrt(n, p) returns two roots for an odd prime p,
\* they are r and p - r, both in [1, p - 1] and different.
C19_TwoRootsAreOpposite ==
    (call.fn = "modSqrt" /\ Len(call.ret) = 2) =>
        /\ call.ret[2] = call.p - call.ret[1]
        /\ call.ret[1] \in 1..(call.p - 1)
        /\ call.ret[2] \in 1..(call.p - 1)
        /\ call.ret[1] # call.ret[2]

\* two roots from the general case of modSqrt: 2 = 6 * 6 (mod 17)
C19_Witness ==
    /\ call.fn = "modSqrt"
    /\ call.p = 17
    /\ call.n = 2
    /\ Range(call.ret) = {6, 11}
    /\ Len(call.ret) = 2

RECURSIVE Gcd(_, _)
Gcd(a, b) == IF b = 0 THEN a ELSE Gcd(b, a % b)

\* C12 (SpecArith): for a modulus m > 1 and a in [1, m) with gcd(a, m) = 1,
\* modInverse(a, m) returns x in [0, m) with a * x = 1 (mod m), and its loop
\* ends (within a + 1 passes).
C12_InverseCorrect ==
    (call.fn = "modInverse" /\ Gcd(call.a, call.m) = 1) =>
        /\ call.ret \in 0..(call.m - 1)
        /\ (call.a * call.ret) % call.m = 1
        /\ call.passes <= call.a + 1

\* 7 * 23 = 161 = 4 * 40 + 1, found after several passes of the loop
C12_Witness ==
    /\ call.fn = "modInverse"
    /\ call.a = 7
    /\ call.m = 40
    /\ call.ret = 23
    /\ call.passes > 2

\* C15 (SpecArith): for n >= 2 and a draw u in [0, 1), generatePrivateKey(n)
\* is an integer d with 1 <= d <= n - 1, and every value of [1, n - 1] is
\* returned for some draw.
C15_PrivateKeyInRange ==
    call.fn = "generatePrivateKey" =>
        /\ call.ret \in 1..(call.n - 1)
        /\ \A d \in 1..(call.n - 1) :
              \E i \in RandomDraws : generatePrivateKey(call.n, i) = d

\* the largest key, n - 1, drawn for the largest n
C15_Witness ==
    /\ call.fn = "generatePrivateKey"
    /\ call.n = RandomResolution + 1
    /\ call.i = RandomResolution - 1
    /\ call.ret = call.n - 1

\* P added count times to acc with addPoints, one addition after the other
\* (split in halves; the test of the first half makes it run first)
RECURSIVE AddRepeatedly(_, _, _, _)
AddRepeatedly(count, acc, point, c) ==
    IF count = 0 THEN acc
    ELSE IF count = 1 THEN addPoints(acc, point, c)
    ELSE LET half == AddRepeatedly(count \div 2, acc, point, c)
         IN  IF half.isInfinity \/ ~half.isInfinity
             THEN AddRepeatedly(count - count \div 2, half, point, c)
             ELSE half

AffineSolutions(c) ==
    {pt \in AllPoints(c.p) \ {POINT_AT_INFINITY} :
        (pt.y * pt.y - (pt.x * pt.x * pt.x + c.a * pt.x + c.b)) % c.p = 0}

\* C14 (SpecPoints): for a curve over an odd prime p <= 1000, getAllPoints
\* returns a list that starts with the point at infinity and goes on with
\* exactly the pairs (x, y) in [0, p) x [0, p) with y * y = x^3 + a x + b
\* (mod p), each listed once.
C14_AllPointsListed ==
    call.fn = "getAllPoints" =>
        /\ Len(call.ret) >= 1
        /\ call.ret[1] = POINT_AT_INFINITY
        /\ {call.ret[j] : j \in 2..Len(call.ret)} = AffineSolutions(curve)
        /\ Cardinality({call.ret[j] : j \in 2..Len(call.ret)}) = Len(call.ret) - 1

\* C18 (SpecPoints): over an odd prime p, calculateYFromX(x, curve) returns
\* exactly the y in [0, p) with y * y = x^3 + a x + b (mod p): zero, one or
\* two values, none of them twice.
C18_YValuesExact ==
    call.fn = "calculateYFromX" =>
        /\ Range(call.ret) =
              {y \in 0..(curve.p - 1) :
                  (y * y - (call.x * call.x * call.x + curve.a * call.x + curve.b))
                      % curve.p = 0}
        /\ Len(call.ret) <= 2
        /\ Cardinality(Range(call.ret)) = Len(call.ret)

\* the stated n does not annihilate G, and G is on the curve
OrderMisstated ==
    /\ IsCurvePoint(curve.G)
    /\ ~scalarMultiply(curve.n, curve.G, curve).isInfinity

C20_Retried ==
    /\ sign'.pc = "GenerateNonce"
    /\ sign'.message = sign.message
    /\ sign'.privateKey = sign.privateKey
    /\ sign'.n = sign.n
    /\ sign'.k = Null /\ sign'.r = Null /\ sign'.s = Null
    /\ sign'.kG = POINT_AT_INFINITY
    /\ signature' = signature

\* one step of a signing run
C20_Step ==
    \/ sign' = sign /\ signature' = signature
    \/ /\ sign.pc = "idle"
       /\ sign'.pc = "GenerateNonce"
       /\ signature' = signature
    \/ /\ sign.pc = "GenerateNonce"
       /\ sign'.pc = "ComputeR"
       /\ sign'.k \in 1..(sign.n - 1)
       /\ signature' = signature
    \/ /\ sign.pc = "ComputeR"
       /\ LET kG == scalarMultiply(sign.k, curve.G, curve)
          IN  IF kG.isInfinity \/ mod(kG.x, sign.n) = 0
              THEN C20_Retried
              ELSE /\ sign'.pc = "ComputeS"
                   /\ sign'.k = sign.k
                   /\ sign'.r = mod(kG.x, sign.n)
                   /\ signature' = signature
    \/ /\ sign.pc = "ComputeS"
       /\ LET s == signS(sign.k, sign.r, sign.z, sign.privateKey, sign.n)
          IN  IF s = 0
              THEN C20_Retried
              ELSE /\ sign'.pc = "Accept"
                   /\ sign'.k = sign.k
                   /\ signature' = Signature(sign.r, s)

\* the signature returned comes from the nonce of the attempt that was accepted
C20_FromFinalNonce ==
    sign.pc = "Accept" =>
        LET kG == scalarMultiply(sign.k, curve.G, curve)
        IN  /\ ~kG.isInfinity
            /\ signature.r = mod(kG.x, sign.n)
            /\ signature.s =
                  signS(sign.k, signature.r, sign.z, sign.privateKey, sign.n)

\* C20 (SpecECDSA): a signing run goes GenerateNonce, ComputeR, ComputeS in
\* that order; when kG is infinity, r = 0 or s = 0 it goes back to
\* GenerateNonce, where a new nonce is drawn, and keeps none of the values of
\* that attempt; once a signature is accepted the run takes no further step;
\* and the r and s returned are both computed from the nonce of the last
\* attempt.
C20_SigningRun == [][C20_Step]_vars /\ []C20_FromFinalNonce

\* a signature accepted after a retry: the retried call is given the order
\* recovered by the first one
C20_Witness ==
    /\ sign.pc = "Accept"
    /\ sign.curve.n # curve.n
    /\ signature = Signature(sign.r, sign.s)

\* the attempt of the running call with nonce k ends in Accept
AttemptAccepted(nonce) ==
    LET kG == scalarMultiply(nonce, sign.curve.G, sign.curve)
    IN  /\ ~kG.isInfinity
        /\ mod(kG.x, sign.n) # 0
        /\ signS(nonce, mod(kG.x, sign.n), sign.z, sign.privateKey, sign.n) # 0

\* C21 (SpecSigning): on the default curve, for every message and every
\* private key d in [1, n - 1], whenever signMessage is about to draw a nonce
\* some nonce it can draw gives kG # infinity, r # 0 and s # 0, so a run that
\* keeps drawing every nonce reaches Accept and the retries end.  (A retry
\* comes back to the same state, so the run ends exactly when such a nonce
\* exists.)
C21_SomeNonceAccepted ==
    sign.pc = "GenerateNonce" =>
        \E i \in RandomDraws : AttemptAccepted(generatePrivateKey(sign.n, i))

\* C22 (SpecArith): simpleHash returns a non-negative integer of at most 2^31,
\* and z = simpleHash(message) % n is the residue of that integer in [0, n).
C22_HashInRange ==
    call.fn = "simpleHash" =>
        /\ call.ret[1] \in 0..32768
        /\ call.ret[2] \in 0..65535
        /\ call.ret[1] = 32768 => call.ret[2] = 0
        /\ call.z \in 0..(call.n - 1)
        /\ call.z = IF call.ret[1] = 32768
                    THEN (2 * (1073741824 % call.n)) % call.n
                    ELSE (call.ret[1] * 65536 + call.ret[2]) % call.n

\* the hash -2^31 becomes 2^31, reduced modulo 227
C22_Witness ==
    /\ call.fn = "simpleHash"
    /\ call.message = <<2324, 37, 120, 101, 126>>
    /\ call.ret = <<32768, 0>>
    /\ call.n = defaultCurve.n
    /\ call.z = 88

\* C23 (SpecSimECDH): on the default curve every public key
\* computePublicKey(d, curve) of a private key d in [1, n - 1] is an affine
\* point, and so is every shared secret of two such keys: the coordinates
\* exchangeKeys hands to deriveAESKey are never null.
C23_KeysAndSecretsAffine ==
    /\ alice.publicKey # NullPoint => ~alice.publicKey.isInfinity
    /\ bob.publicKey # NullPoint => ~bob.publicKey.isInfinity
    /\ \A e \in sim.exchanges :
          /\ ~e.aliceShared.isInfinity
          /\ ~e.bobShared.isInfinity
          /\ e.aliceAESKey[1] # Null /\ e.aliceAESKey[2] # Null
          /\ e.bobAESKey[1] # Null /\ e.bobAESKey[2] # Null

\* C30 (SpecSimECDH): in ECDHSimulator, after any sequence of
\* generateAliceKeys, generateBobKeys, exchangeKeys and reset, whenever
\* alice.sharedSecret is set it is deriveSharedSecret(alice.privateKey,
\* bob.publicKey, curve) for the keys then held, and it equals
\* bob.sharedSecret.
C30_SharedSecretOfHeldKeys ==
    alice.sharedSecret # NullPoint =>
        /\ alice.privateKey # Null
        /\ bob.publicKey # NullPoint
        /\ alice.sharedSecret =
              deriveSharedSecret(alice.privateKey, bob.publicKey, curve)
        /\ alice.sharedSecret = bob.sharedSecret

\* C24 (Spec): with an odd prime modulus p and on-curve operands P, Q with
\* coordinates in [0, p), addPoints never hands modInverse a denominator that
\* is 0 modulo p: past the identity, inverse and P.y = 0 guards, 2 * P.y
\* (doubling) and Q.x - P.x (chord) are nonzero modulo p.
C24_DenominatorsNonzero ==
    (/\ op = "addPoints"
     /\ OddModulus
     /\ IsCurvePoint(P)
     /\ IsCurvePoint(Q))
    => \A i \in 1..Len(addPointsDenominators(P, Q, curve)) :
          addPointsDenominators(P, Q, curve)[i] % curve.p # 0

\* a doubling on the default curve, past the P.y = 0 guard
C24_Witness ==
    /\ op = "addPoints"
    /\ curve = defaultCurve
    /\ IsResiduePoint(P) /\ IsCurvePoint(P)
    /\ Q = P
    /\ addPointsDenominators(P, Q, curve) = <<mod(2 * P.y, curve.p)>>
    /\ ~result.isInfinity

NonSingular == mod(4 * curve.a * curve.a * curve.a + 27 * curve.b * curve.b, curve.p) # 0

C27_SamePointsAsBruteForce ==
    (call.fn = "getAllPointsBruteForce" /\ OddModulus)
        => Range(call.optimized) = Range(call.ret)

\* the negation of an affine point
Negated(pt) == Affine(pt.x, mod(-pt.y, curve.p))

\* C28 (Spec): for a negative scalar k, which PointCalculator passes on like
\* any parsed integer, scalarMultiply(k, P, curve) is the point at infinity
\* for every P: the loop body never runs, and |k| times the negation of P is
\* returned only where that is the point at infinity itself.
C28_NegativeScalarGivesInfinity ==
    (op = "scalarMultiply" /\ k < 0) =>
        /\ result.isInfinity
        /\ IsResiduePoint(P) =>
              (result = scalarMultiply(-k, Negated(P), curve)
                  <=> scalarMultiply(-k, Negated(P), curve).isInfinity)

\* k = -1 and P = G on the default curve: the result is infinity, -G is not
C28_Witness ==
    /\ op = "scalarMultiply"
    /\ curve = defaultCurve
    /\ k = -1
    /\ P = curve.G
    /\ result.isInfinity
    /\ scalarMultiply(1, Negated(P), curve) = Affine(47, 152)

\* C29 (SpecSimECDSA): in ECDSASimulator, after any sequence of generateKeys,
\* signDoc, verify and reset on a fixed curve: a held signature was produced
\* with the private key now held, whose public key is the held public key;
\* a verificationResult other than null implies a held signature; and
\* currentStep >= 2 exactly when a signature is held.
C29_SimulatorConsistent ==
    /\ signature # NoSignature =>
          /\ signer.privateKey # Null
          /\ sim.signedWith = signer.privateKey
          /\ signer.publicKey = computePublicKey(signer.privateKey, curve)
    /\ sim.verificationResult # "null" => signature # NoSignature
    /\ sim.currentStep >= 2 <=> signature # NoSignature

\* a signature verified after the tampered text was edited
C29_Witness ==
    /\ sim.component = "ECDSASimulator"
    /\ signature # NoSignature
    /\ sim.signedWith = signer.privateKey
    /\ sim.tamperedMessage # sim.message
    /\ sim.verificationResult = "false"
    /\ sim.currentStep = 3

====
